---- MODULE Spec2Model ----
(***************************************************************************)
(* Frame handling of python-cpl (cpl/frames.py): FrameConfig, FrameList,   *)
(* mkabspath and Result, written as state machines.                        *)
(*                                                                         *)
(* Four specifications share the module:                                   *)
(*   SpecFrameList  one FrameList; the recipe declares each tag once       *)
(*   SpecRepeat     reads of a FrameList; the recipe may repeat a tag      *)
(*   SpecResult     one construction of a Result                           *)
(*   SpecMkabspath  one call of mkabspath                                  *)
(* Each leaves the variables of the other components at their idle values. *)
(* FrameList.__init__ from another FrameList, the attribute-style access   *)
(* (__getattr__, __setattr__, __delattr__, which call the item methods)    *)
(* and the text of _doc and __repr__ are not part of the model.            *)
(***************************************************************************)
EXTENDS Integers, Sequences, FiniteSets, TLC

VARIABLES
    values,    \* FrameList._values: tag -> FrameConfig, NoEntry where no key
    decl,      \* what recipe.frameConfig() lists, flattened over configs[1]
    avail,     \* FALSE: recipe.frameConfig() returns None
    op,        \* the last FrameList call and how it ended
    rpc,       \* Result.__init__: "idle", "new" (arguments bound), "done"
    rin,       \* arguments of Result.__init__ and the state of the directory
    result,    \* the constructed Result, NoResult when none
    raised,    \* the exception that left Result.__init__, NoExc when none
    opened,    \* files handed to pyfits.open, in order
    removed,   \* files os.remove deleted
    mpc,       \* mkabspath: "idle", "new", "done"
    margs,     \* arguments of mkabspath and the files present before it
    frames,    \* the frames list, replaced in place
    created,   \* files the call added to the disk
    mret       \* what mkabspath returned, or the exception that left it

flvars == <<values, decl, avail, op>>
resvars == <<rpc, rin, result, raised, opened, removed>>
mkvars == <<mpc, margs, frames, created, mret>>
vars == <<values, decl, avail, op, rpc, rin, result, raised, opened,
          removed, mpc, margs, frames, created, mret>>

(***************************************************************************)
(* Bounds                                                                  *)
(***************************************************************************)
MaxCount == 1      \* largest frame count a declaration names
MaxDecl == 2       \* most (tag, min, max) entries in one declaration
MaxRes == 3        \* most (tag, filename) pairs a recipe returns
MaxInputLen == 2   \* largest input_len handed to Result
MaxFrames == 2     \* most (tag, frame) pairs handed to mkabspath

Tags == {"BIAS", "FLAT"}
FrameVals == {"a.fits", "b.fits"}
Override == "o.fits"

(***************************************************************************)
(* Python values.  An optional integer is <<>> (None) or <<n>>.            *)
(***************************************************************************)
None == <<>>
Some(n) == <<n>>
IsNone(x) == x = <<>>
Val(x) == x[1]

NoFrames == "None"          \* the attribute frames holds None
Deleted == "<no attribute>" \* the attribute frames was removed by del
NoEntry == [present |-> FALSE]

Min2(a, b) == IF a <= b THEN a ELSE b
Max2(a, b) == IF a >= b THEN a ELSE b

(***************************************************************************)
(* FrameConfig                                                             *)
(***************************************************************************)
\* FrameConfig.__init__: a count that is None or not > 0 is stored as None
\* (Python 2 orders None below every integer, so None > 0 is False).
PositiveOrNone(c) == IF ~IsNone(c) /\ Val(c) > 0 THEN c ELSE None

FrameConfig(min_frames, max_frames, fr) ==
    [present |-> TRUE,
     min |-> PositiveOrNone(min_frames),
     max |-> PositiveOrNone(max_frames),
     frames |-> fr]

extend_range(fc, min_frames, max_frames) ==
    [fc EXCEPT
       !.min = IF ~IsNone(fc.min)
               THEN (IF ~IsNone(min_frames)
                     THEN Some(Min2(Val(fc.min), Val(min_frames)))
                     ELSE None)
               ELSE fc.min,
       !.max = IF ~IsNone(fc.max)
               THEN (IF ~IsNone(max_frames)
                     THEN Some(Max2(Val(fc.max), Val(max_frames)))
                     ELSE None)
               ELSE fc.max]

\* set_range written as the construction of a new FrameConfig.
set_range_fresh(fc, min_frames, max_frames) ==
    [present |-> TRUE, min |-> min_frames, max |-> max_frames,
     frames |-> NoFrames]

set_range(fc, min_frames, max_frames) ==
    [fc EXCEPT !.min = min_frames, !.max = max_frames]

(***************************************************************************)
(* FrameList                                                               *)
(***************************************************************************)
\* One pass of the loop of _cpl_dict over the entries f of the declaration.
\* s shares its FrameConfig objects with _values, so s is kept as the set
\* of its keys and every change to an object is made in vals.
RECURSIVE cpl_loop(_, _, _)
cpl_loop(entries, s, vals) ==
    IF entries = <<>> THEN [s |-> s, vals |-> vals]
    ELSE LET f == Head(entries)
             t == f.tag
         IN IF t \in s
            THEN cpl_loop(Tail(entries), s,
                   [vals EXCEPT ![t] = extend_range(vals[t], f.min, f.max)])
            ELSE IF vals[t].present
            THEN cpl_loop(Tail(entries), s \cup {t},
                   [vals EXCEPT ![t] = set_range(vals[t], f.min, f.max)])
            ELSE cpl_loop(Tail(entries), s \cup {t},
                   [vals EXCEPT ![t] = FrameConfig(f.min, f.max, NoFrames)])

\* _cpl_dict: isNone when frameConfig() returned None; otherwise the keys
\* of s and _values as the loop left it.
cpl_dict(vals, d, av) ==
    IF ~av THEN [isNone |-> TRUE, s |-> {}, vals |-> vals]
    ELSE LET r == cpl_loop(d, {}, vals)
         IN [isNone |-> FALSE, s |-> r.s, vals |-> r.vals]

Keys(vals) == {t \in Tags : vals[t].present}

\* _get_dict returning every tag of _values, declared or not.
get_dict_all(vals, d, av) ==
    LET c == cpl_dict(vals, d, av)
    IN [keys |-> Keys(c.vals), vals |-> c.vals]

\* _get_dict: self._cpl_dict() or self._values.  None and the empty dict
\* are both false, so either gives _values.
get_dict(vals, d, av) ==
    LET c == cpl_dict(vals, d, av)
    IN [keys |-> IF c.isNone \/ c.s = {} THEN Keys(c.vals) ELSE c.s,
        vals |-> c.vals]

Called(name, key, out, n) ==
    [name |-> name, key |-> key, value |-> "", out |-> out, n |-> n,
     pairs |-> {}]

\* __getitem__
getitem(key) ==
    LET d == get_dict(values, decl, avail)
    IN /\ values' = d.vals
       /\ op' = Called("get", key,
                       IF key \in d.keys THEN "ok" ELSE "KeyError", 0)
       /\ UNCHANGED <<decl, avail, resvars, mkvars>>

\* __contains__
contains(key) ==
    LET d == get_dict(values, decl, avail)
    IN /\ values' = d.vals
       /\ op' = Called("contains", key,
                       IF key \in d.keys THEN "True" ELSE "False", 0)
       /\ UNCHANGED <<decl, avail, resvars, mkvars>>

\* __len__
len ==
    LET d == get_dict(values, decl, avail)
    IN /\ values' = d.vals
       /\ op' = Called("len", "", "ok", Cardinality(d.keys))
       /\ UNCHANGED <<decl, avail, resvars, mkvars>>

\* __setitem__
setitem(key, value) ==
    LET c == cpl_dict(values, decl, avail)
    IN /\ IF ~c.isNone
          THEN IF key \in c.s
               THEN /\ values' = [c.vals EXCEPT ![key].frames = value]
                    /\ op' = [Called("set", key, "ok", 0)
                              EXCEPT !.value = value]
               ELSE /\ values' = c.vals
                    /\ op' = [Called("set", key, "KeyError", 0)
                              EXCEPT !.value = value]
          ELSE /\ values' =
                    [c.vals EXCEPT ![key] =
                        [(IF c.vals[key].present THEN c.vals[key]
                          ELSE FrameConfig(Some(0), Some(0), NoFrames))
                         EXCEPT !.frames = value]]
               /\ op' = [Called("set", key, "ok", 0) EXCEPT !.value = value]
       /\ UNCHANGED <<decl, avail, resvars, mkvars>>

\* __delitem__: del of the attribute frames of the FrameConfig
delitem(key) ==
    LET d == get_dict(values, decl, avail)
    IN /\ IF key \notin d.keys
          THEN /\ values' = d.vals
               /\ op' = Called("del", key, "KeyError", 0)
          ELSE IF d.vals[key].frames = Deleted
          THEN /\ values' = d.vals
               /\ op' = Called("del", key, "AttributeError", 0)
          ELSE /\ values' = [d.vals EXCEPT ![key].frames = Deleted]
               /\ op' = Called("del", key, "ok", 0)
       /\ UNCHANGED <<decl, avail, resvars, mkvars>>

\* _aslist(**ndata): f.frames is read for every tag of the view that ndata
\* does not name; reading a removed attribute raises AttributeError.
aslist(ndata) ==
    LET d == get_dict(values, decl, avail)
        fails == \E t \in d.keys \ ndata : d.vals[t].frames = Deleted
    IN /\ values' = d.vals
       /\ op' = [Called("aslist", "",
                        IF fails THEN "AttributeError" ELSE "ok", 0)
                 EXCEPT !.pairs =
                    IF fails THEN {}
                    ELSE {<<t, IF t \in ndata THEN Override
                              ELSE d.vals[t].frames>> : t \in d.keys}]
       /\ UNCHANGED <<decl, avail, resvars, mkvars>>

\* The recipe gains or loses its frame configuration: frameConfig() returns
\* the declaration or None.
SetAvailable(b) ==
    /\ avail # b
    /\ avail' = b
    /\ op' = Called("recipe", "", "ok", 0)
    /\ UNCHANGED <<values, decl, resvars, mkvars>>

DeclCounts == {None} \cup {Some(n) : n \in 0..MaxCount}
DeclEntries == [tag : Tags, min : DeclCounts, max : DeclCounts]
RECURSIVE SeqsUpTo(_, _)
SeqsUpTo(S, n) ==
    IF n = 0 THEN {<<>>}
    ELSE LET shorter == SeqsUpTo(S, n - 1)
         IN shorter \cup {Append(q, e) : q \in shorter, e \in S}
Decls == SeqsUpTo(DeclEntries, MaxDecl)

\* FrameList.__init__ with other a dict (or list of pairs) or nothing:
\* every seeded tag gets FrameConfig(tag, frames = value).
Seeds == [Tags -> {"-"} \cup FrameVals]
Seeded(seed) ==
    [t \in Tags |-> IF seed[t] = "-" THEN NoEntry
                    ELSE FrameConfig(Some(0), Some(0), seed[t])]

NoResult == [ok |-> FALSE]
NoExc == [type |-> "none"]
IdleResult ==
    /\ rpc = "idle" /\ rin = <<>> /\ result = NoResult /\ raised = NoExc
    /\ opened = <<>> /\ removed = {}
NotReturned == [type |-> "none"]
IdleMkabspath ==
    /\ mpc = "idle" /\ margs = <<>> /\ frames = <<>> /\ created = {}
    /\ mret = NotReturned
IdleFrameList ==
    /\ values = [t \in Tags |-> NoEntry] /\ decl = <<>> /\ avail = FALSE
    /\ op = Called("init", "", "ok", 0)

\* Declarations that name no tag twice.  s is a dict, so the order in which
\* different tags are declared has no effect; one order stands for both.
TagOrder == <<"BIAS", "FLAT">>
TagIndex(t) == CHOOSE k \in DOMAIN TagOrder : TagOrder[k] = t
NoRepeat(d) ==
    \A i, j \in DOMAIN d : i < j => TagIndex(d[i].tag) < TagIndex(d[j].tag)

InitFrameList ==
    /\ \E seed \in Seeds : values = Seeded(seed)
    /\ decl \in {d \in Decls : NoRepeat(d)}
    /\ avail \in BOOLEAN
    /\ op = Called("init", "", "ok", 0)
    /\ IdleResult /\ IdleMkabspath

NextFrameList ==
    \/ \E key \in Tags : getitem(key)
    \/ \E key \in Tags : contains(key)
    \/ len
    \/ \E key \in Tags, value \in FrameVals : setitem(key, value)
    \/ \E key \in Tags : delitem(key)
    \/ \E ndata \in SUBSET Tags : aslist(ndata)
    \/ \E b \in BOOLEAN : SetAvailable(b)

\* One FrameList of a recipe whose declaration names each tag at most once.
SpecFrameList == InitFrameList /\ [][NextFrameList]_vars

InitRepeat ==
    /\ \E seed \in Seeds : values = Seeded(seed)
    /\ decl \in Decls
    /\ avail \in BOOLEAN
    /\ op = Called("init", "", "ok", 0)
    /\ IdleResult /\ IdleMkabspath

NextRepeat ==
    \/ \E key \in Tags : getitem(key)
    \/ \E key \in Tags : contains(key)
    \/ len
    \/ \E ndata \in SUBSET Tags : aslist(ndata)
    \/ \E b \in BOOLEAN : SetAvailable(b)

\* Reads of a FrameList whose recipe may declare a tag several times.
SpecRepeat == InitRepeat /\ [][NextRepeat]_vars

(***************************************************************************)
(* Properties of FrameList                                                 *)
(***************************************************************************)
ReadOps == {"get", "contains", "len", "aslist"}
EntriesOf(t) == {i \in DOMAIN decl : decl[i].tag = t}
DeclaredTags == {decl[i].tag : i \in DOMAIN decl}
\* The tags a read sees: the declared ones when the recipe declares any,
\* the ones of _values otherwise.
View == IF avail /\ DeclaredTags # {} THEN DeclaredTags ELSE Keys(values)

C4_SetSucceedsWhereContains ==
    op.name = "set" =>
        IF avail
        THEN /\ op.out = "ok" <=> op.key \in get_dict(values, decl, avail).keys
             /\ op.out = "ok" => values[op.key].frames = op.value
        ELSE op.out = "ok" /\ values[op.key].frames = op.value

C6_DeleteLeavesAbsentValue ==
    /\ (op.name = "del" /\ op.out = "ok") =>
          /\ values[op.key].present
          /\ values[op.key].frames = NoFrames
    /\ op.name = "aslist" => op.out = "ok"

Unset(c) == IsNone(c) \/ Val(c) = 0
\* C8: after a read, a tag declared twice or more has min = the smallest
\* declared min and max = the largest declared max, unset (None or 0) as
\* soon as one of its declarations leaves that bound unset.
C8_RepeatedTagWidens ==
    (op.name \in ReadOps /\ avail) =>
        \A t \in Tags : Cardinality(EntriesOf(t)) >= 2 =>
          /\ values[t].min =
                IF \E i \in EntriesOf(t) : Unset(decl[i].min) THEN None
                ELSE CHOOSE m \in {decl[i].min : i \in EntriesOf(t)} :
                       \A i \in EntriesOf(t) : Val(m) <= Val(decl[i].min)
          /\ values[t].max =
                IF \E i \in EntriesOf(t) : Unset(decl[i].max) THEN None
                ELSE CHOOSE m \in {decl[i].max : i \in EntriesOf(t)} :
                       \A i \in EntriesOf(t) : Val(m) >= Val(decl[i].max)

\* C10: a read that follows a read, the declaration unchanged and nothing
\* set or deleted in between, leaves every tag, bound and value as the
\* first read left it.
C10_ReadIsIdempotent ==
    [][(op.name \in ReadOps /\ op'.name \in ReadOps)
          => values' = values]_vars

(***************************************************************************)
(* Result                                                                  *)
(***************************************************************************)
Files == {"r1.fits", "r2.fits"}

\* CplError.__init__ with the file name and the function name exchanged.
CplError_swapped(code, txt, filename, line, function) ==
    [type |-> "CplError", code |-> code, msg |-> txt, file |-> function,
     line |-> line, function |-> filename]

\* CplError.__init__
CplError(code, txt, filename, line, function) ==
    [type |-> "CplError", code |-> code, msg |-> txt, file |-> filename,
     line |-> line, function |-> function]

\* Stat.__init__; memory_is_empty is { -1:None, 0:False, 1:True }[stat[2]]
Stat(stat) ==
    [kind |-> "Stat", user_time |-> stat[1], sys_time |-> stat[2],
     memory_is_empty |-> CASE stat[3] = 0 - 1 -> "None"
                           [] stat[3] = 0 -> "False"
                           [] stat[3] = 1 -> "True"]

\* What pyfits.open returns for the i-th pair: a new HDUList read from file.
HDUList(file, i) == [kind |-> "HDUList", file |-> file, pos |-> i]
PyList(items) == [kind |-> "list", items |-> items]

\* Line 257 without the test of input_len.
first_value_bare(hdu, input_len) == hdu

\* Line 257: what a tag seen for the first time is bound to.
first_value(hdu, input_len) ==
    IF input_len # 1 THEN hdu ELSE PyList(<<hdu>>)

\* Lines 256-262 for one loaded hdu.  d is self.__dict__, which holds dir
\* and tags besides the tags bound so far.  Appending to a value that is
\* neither an HDUList nor a list raises AttributeError.
bind(d, tag, hdu, input_len) ==
    IF tag \notin DOMAIN d
    THEN [exc |-> NoExc,
          d |-> [k \in DOMAIN d \cup {tag} |->
                   IF k = tag THEN first_value(hdu, input_len)
                   ELSE IF k = "tags"
                   THEN [d["tags"] EXCEPT !.elems = @ \cup {tag}]
                   ELSE d[k]]]
    ELSE IF d[tag].kind = "HDUList"
    THEN [exc |-> NoExc,
          d |-> [d EXCEPT ![tag] = PyList(<<d[tag], hdu>>)]]
    ELSE IF d[tag].kind = "list"
    THEN [exc |-> NoExc,
          d |-> [d EXCEPT ![tag].items = Append(@, hdu)]]
    ELSE [exc |-> [type |-> "AttributeError"], d |-> d]

\* The loop of lines 251-262 from pair i on.  disk is the set of files in
\* dir, locked those os.remove cannot delete.
RECURSIVE load_loop(_, _, _, _, _, _)
load_loop(a, i, d, disk, opn, rmv) ==
    IF i > Len(a.res)
    THEN [exc |-> NoExc, d |-> d, opened |-> opn, removed |-> rmv]
    ELSE LET tag == a.res[i].tag
             file == a.res[i].file
         IN IF file \notin disk
            THEN [exc |-> [type |-> "IOError"], d |-> d,
                  opened |-> Append(opn, file), removed |-> rmv]
            ELSE IF a.delete /\ file \in a.locked
            THEN [exc |-> [type |-> "OSError"], d |-> d,
                  opened |-> Append(opn, file), removed |-> rmv]
            ELSE LET b == bind(d, tag, HDUList(file, i), a.input_len)
                     disk2 == IF a.delete THEN disk \ {file} ELSE disk
                     rmv2 == IF a.delete THEN rmv \cup {file} ELSE rmv
                 IN IF b.exc # NoExc
                    THEN [exc |-> b.exc, d |-> b.d,
                          opened |-> Append(opn, file), removed |-> rmv2]
                    ELSE load_loop(a, i + 1, b.d, disk2,
                                   Append(opn, file), rmv2)

\* Result.__init__.  Lines 240-245 only log the pairs.
Result ==
    /\ rpc = "new"
    /\ rpc' = "done"
    /\ IF rin.err.code # 0
       THEN /\ raised' = CplError(rin.err.code, rin.err.msg, rin.err.file,
                                  rin.err.line, rin.err.function)
            /\ UNCHANGED <<result, opened, removed>>
       ELSE LET d0 == [k \in {"dir", "tags"} |->
                         IF k = "dir" THEN [kind |-> "str"]
                         ELSE [kind |-> "set", elems |-> {}]]
                r == load_loop(rin, 1, d0, rin.disk, <<>>, {})
            IN /\ opened' = r.opened
               /\ removed' = r.removed
               /\ raised' = r.exc
               /\ result' =
                    IF r.exc # NoExc THEN NoResult
                    ELSE [ok |-> TRUE,
                          dict |-> [k \in DOMAIN r.d \cup {"stat"} |->
                                      IF k = "stat" THEN Stat(rin.stat)
                                      ELSE r.d[k]]]
    /\ UNCHANGED <<rin, flvars, mkvars>>

\* The error descriptor, res[1]: all empty and zero when the recipe succeeded.
ErrDescs ==
    {[code |-> 0, msg |-> "", file |-> "", line |-> 0, function |-> ""],
     [code |-> 13, msg |-> "no data", file |-> "recipe.c", line |-> 42,
      function |-> "reduce"],
     [code |-> 7, msg |-> "bad frame", file |-> "io.c", line |-> 7,
      function |-> "load"]}
ResPairs == [tag : Tags, file : Files]
Stats == {<<1, 2, f>> : f \in {0 - 1, 0, 1}}

InitResult ==
    /\ rpc = "new"
    /\ rin \in [res : SeqsUpTo(ResPairs, MaxRes),
                err : ErrDescs,
                stat : Stats,
                delete : BOOLEAN,
                input_len : 0..MaxInputLen,
                disk : SUBSET Files,
                locked : SUBSET Files]
    /\ rin.locked \subseteq rin.disk
    /\ result = NoResult /\ raised = NoExc
    /\ opened = <<>> /\ removed = {}
    /\ IdleFrameList /\ IdleMkabspath

NextResult == Result

\* One construction of a Result from what one recipe invocation returned.
SpecResult == InitResult /\ [][NextResult]_vars

(***************************************************************************)
(* Properties of Result                                                    *)
(***************************************************************************)
\* Positions of tag t in the result pairs, and the k-th of them.
Occ(t) == {i \in DOMAIN rin.res : rin.res[i].tag = t}
Nth(t, k) ==
    CHOOSE i \in Occ(t) : Cardinality({j \in Occ(t) : j < i}) = k - 1
Loaded(i) == HDUList(rin.res[i].file, i)
Built == rpc = "done" /\ result.ok

C2_ErrorRaisedUntouched ==
    (rpc = "done" /\ rin.err.code # 0) =>
        /\ ~result.ok
        /\ raised.type = "CplError"
        /\ raised.code = rin.err.code
        /\ raised.msg = rin.err.msg
        /\ raised.file = rin.err.file
        /\ raised.line = rin.err.line
        /\ raised.function = rin.err.function
        /\ opened = <<>>
        /\ removed = {}

C2_Witness ==
    /\ rpc = "done" /\ rin.err.code # 0
    /\ rin.res # <<>> /\ rin.delete
    /\ \A i \in DOMAIN rin.res : rin.res[i].file \in rin.disk \ rin.locked
    /\ raised.type = "CplError"

\* C7: with delete true and error code 0, when every file loads, the
\* construction completes with a Result that holds every loaded unit, its
\* tags and its stat, whether or not the files could be deleted.
C7_DeleteFailureNotFatal ==
    (rpc = "done" /\ rin.err.code = 0 /\ rin.delete
        /\ raised.type # "IOError") =>
        /\ result.ok
        /\ Len(opened) = Len(rin.res)
        /\ result.dict["stat"] = Stat(rin.stat)

(***************************************************************************)
(* mkabspath                                                               *)
(***************************************************************************)
\* A file name is a directory and a base name.  "." and "tmp" are relative
\* to the working directory, /cwd.
Cwd == "/cwd"
RelDirs == {".", "tmp"}
Path(dir, name) == [dir |-> dir, name |-> name]

\* The file name left as given.
abspath_asis(p) == p

\* os.path.abspath: a relative name is joined to the working directory.
abspath(p) ==
    Path(CASE p.dir = "." -> Cwd
           [] p.dir = "tmp" -> Cwd \o "/tmp"
           [] OTHER -> p.dir,
         p.name)

\* The name tempfile.mkstemp(prefix = tag-, suffix = .fits, dir = tmpdir)
\* makes from the random part rnd.
RandomParts == {"k1", "k2", "k3", "k4", "k5"}
mkstemp(tag, tmpdir, rnd) == Path(tmpdir, tag \o "-" \o rnd \o ".fits")

AsPath(p) == [kind |-> "path", path |-> p]
AnHDUList == [kind |-> "HDUList"]

\* The loop of mkabspath from pair i on.  rnd[i] is the random part mkstemp
\* draws for pair i; mkstemp never returns a name that exists.  a.fault
\* names the pair at which mkstemp or writeto fails, if any.
RECURSIVE abs_loop(_, _, _, _, _, _)
abs_loop(a, rnd, i, fr, disk, tmpfiles) ==
    IF i > Len(fr)
    THEN [exc |-> "none", frames |-> fr, disk |-> disk, tmpfiles |-> tmpfiles]
    ELSE IF fr[i].val.kind = "HDUList"
    THEN IF a.fault.at = i /\ a.fault.call = "mkstemp"
         THEN [exc |-> "OSError", frames |-> fr, disk |-> disk,
               tmpfiles |-> tmpfiles]
         ELSE LET filename == abspath(mkstemp(fr[i].tag, a.tmpdir, rnd[i]))
                  fr2 == [fr EXCEPT ![i].val = AsPath(filename)]
              IN IF a.fault.at = i /\ a.fault.call = "writeto"
                 THEN [exc |-> "IOError", frames |-> fr2,
                       disk |-> disk \cup {filename},
                       tmpfiles |-> Append(tmpfiles, filename)]
                 ELSE abs_loop(a, rnd, i + 1, fr2, disk \cup {filename},
                               Append(tmpfiles, filename))
    ELSE abs_loop(a, rnd, i + 1,
                  [fr EXCEPT ![i].val = AsPath(abspath(fr[i].val.path))],
                  disk, tmpfiles)

\* The random parts mkstemp can draw: each name is new when it is made.
Fresh(a, rnd) ==
    \A i \in DOMAIN a.frames :
        a.frames[i].val.kind = "HDUList" =>
            LET f == abspath(mkstemp(a.frames[i].tag, a.tmpdir, rnd[i]))
            IN /\ f \notin a.disk
               /\ \A j \in 1..(i - 1) :
                     a.frames[j].val.kind = "HDUList" =>
                        f # abspath(mkstemp(a.frames[j].tag, a.tmpdir, rnd[j]))

mkabspath ==
    /\ mpc = "new"
    /\ mpc' = "done"
    /\ \E rnd \in [DOMAIN margs.frames -> RandomParts] :
          /\ Fresh(margs, rnd)
          /\ LET r == abs_loop(margs, rnd, 1, frames, margs.disk, <<>>)
             IN /\ frames' = r.frames
                /\ created' = r.disk \ margs.disk
                /\ mret' = IF r.exc = "none"
                           THEN [type |-> "return", tmpfiles |-> r.tmpfiles]
                           ELSE [type |-> r.exc]
    /\ UNCHANGED <<margs, flvars, resvars>>

\* The frames handed in: file names, relative or absolute, and HDU lists.
InputPaths == {Path(".", "in1.fits"), Path("/data", "in2.fits")}
FrameValues == {AnHDUList} \cup {AsPath(p) : p \in InputPaths}
FramePairs == [tag : Tags, val : FrameValues]
Faults == {[at |-> 0, call |-> "none"]}
          \cup [at : 1..MaxFrames, call : {"mkstemp", "writeto"}]
\* A file left in the temporary directory by an earlier call.
Stale == Path(Cwd \o "/tmp", "BIAS-k1.fits")

InitMkabspath ==
    /\ mpc = "new"
    /\ \E fr \in SeqsUpTo(FramePairs, MaxFrames), td \in {"tmp", "/scratch"},
          ft \in Faults, stale \in SUBSET {Stale} :
          /\ margs = [frames |-> fr, tmpdir |-> td, fault |-> ft,
                      disk |-> stale \cup
                        {abspath(fr[i].val.path) :
                           i \in {j \in DOMAIN fr : fr[j].val.kind = "path"}}]
          /\ frames = fr
    /\ created = {}
    /\ mret = NotReturned
    /\ IdleFrameList /\ IdleResult

NextMkabspath == mkabspath

\* One call of mkabspath.
SpecMkabspath == InitMkabspath /\ [][NextMkabspath]_vars

(***************************************************************************)
(* Properties of mkabspath                                                 *)
(***************************************************************************)
IsAbsolute(p) == p.dir \notin RelDirs
WasHDU(i) == margs.frames[i].val.kind = "HDUList"
\* The pairs that held an HDU list, in order.
RECURSIVE HDUPositions(_)
HDUPositions(n) ==
    IF n = 0 THEN <<>>
    ELSE IF WasHDU(n) THEN Append(HDUPositions(n - 1), n)
    ELSE HDUPositions(n - 1)

\* C9: after a normal return the list has its length, order and tags; a
\* pair that held an HDU list holds the absolute name of a file of the
\* temporary directory that the call created, a different one for every
\* such pair; the returned list is these names in pair order and holds
\* every file the call created; a pair that held a file name holds its
\* absolute form, which is not in the returned list.
C9_MaterializeReturnsCreated ==
    (mpc = "done" /\ mret.type = "return") =>
        LET hp == HDUPositions(Len(margs.frames))
        IN /\ Len(frames) = Len(margs.frames)
           /\ \A i \in DOMAIN frames :
                 /\ frames[i].tag = margs.frames[i].tag
                 /\ frames[i].val.kind = "path"
                 /\ IsAbsolute(frames[i].val.path)
                 /\ WasHDU(i) =>
                       /\ frames[i].val.path \in created
                       /\ frames[i].val.path \notin margs.disk
                       /\ frames[i].val.path.dir = abspath(Path(margs.tmpdir, "")).dir
                       /\ \A j \in DOMAIN frames :
                             (WasHDU(j) /\ j # i) =>
                                frames[j].val.path # frames[i].val.path
                 /\ ~WasHDU(i) =>
                       /\ frames[i].val.path.name = margs.frames[i].val.path.name
                       /\ frames[i].val.path \notin created
                       /\ \A k \in DOMAIN mret.tmpfiles :
                             mret.tmpfiles[k] # frames[i].val.path
           /\ Len(mret.tmpfiles) = Len(hp)
           /\ \A k \in DOMAIN hp : mret.tmpfiles[k] = frames[hp[k]].val.path
           /\ created = {mret.tmpfiles[k] : k \in DOMAIN mret.tmpfiles}

C9_Witness ==
    /\ mpc = "done" /\ mret.type = "return"
    /\ Len(margs.frames) = 2
    /\ WasHDU(1) /\ ~WasHDU(2)
    /\ ~IsAbsolute(margs.frames[2].val.path)
    /\ Len(mret.tmpfiles) = 1
    /\ Stale \in margs.disk

====
